---------------------------- MODULE Spec2Model ----------------------------
(***************************************************************************)
(* PaperBit (src/src/core/paper_bit.ts): the document builder.  The output *)
(* buffer and the page buffers are held as strings, byte for byte, so that *)
(* an offset is an index into the bytes the program really produced.       *)
(*                                                                         *)
(* Numbers.  The only fractions the layout code produces are halves        *)
(* (lineHeight / 2, and the / 2 of centred text), so every coordinate that *)
(* text() computes is held in HALF UNITS: the model value 2v stands for    *)
(* the program's v.  Names ending in H hold half units.                    *)
(***************************************************************************)
EXTENDS Integers, Sequences, FiniteSets, TLC

(***************************************************************************)
(* Bounds of the model.                                                    *)
(***************************************************************************)
\* fonts passed to the constructor
MaxFonts == 2
\* calls the caller makes on one instance (insertPage, insertText, build)
MaxOps == 4
\* characters of a text laid out
MaxLen == 4
\* calls made on an instance whose promises the caller does not await
MaxAsyncOps == 3

\* the longest payload of a JPEG segment that precedes the frame segment
MaxPayload == 14

(***************************************************************************)
(* Strings: what JavaScript's number formatting, sprintf-js, indexOf,      *)
(* replace and trim do.                                                    *)
(***************************************************************************)
Digits == <<"0", "1", "2", "3", "4", "5", "6", "7", "8", "9">>

Min(S) == CHOOSE x \in S : \A y \in S : x <= y

RECURSIVE Dec(_)
Dec(n) == IF n < 10 THEN Digits[n + 1] ELSE Dec(n \div 10) \o Digits[(n % 10) + 1]

\* `${n}` of an integer
Str(n) == IF n < 0 THEN "-" \o Dec(-n) ELSE Dec(n)

RECURSIVE Zeros(_)
Zeros(k) == IF k <= 0 THEN "" ELSE "0" \o Zeros(k - 1)

\* sprintf("%010d", n)
Pad10(n) == Zeros(10 - Len(Dec(n))) \o Dec(n)

\* sprintf("%.2f", c / 100) for an integer count c of hundredths
FmtHundredths(c) ==
    LET a == IF c < 0 THEN -c ELSE c
        f == a % 100
    IN  (IF c < 0 THEN "-" ELSE "") \o Dec(a \div 100) \o "."
            \o (IF f < 10 THEN "0" ELSE "") \o Dec(f)

\* sprintf("%.2f", v) for an integer v
Fmt2(v) == FmtHundredths(100 * v)

\* sprintf("%.2f", h / 2) for a count h of half units
Fmt2H(h) == FmtHundredths(50 * h)

IsDigit(c) == \E i \in 1..10 : Digits[i] = c

DigitVal(c) == (CHOOSE i \in 1..10 : Digits[i] = c) - 1

AllDigits(s) == Len(s) > 0 /\ \A i \in 1..Len(s) : IsDigit(SubSeq(s, i, i))

RECURSIVE ParseDec(_)
ParseDec(s) ==
    IF Len(s) = 0 THEN 0
    ELSE 10 * ParseDec(SubSeq(s, 1, Len(s) - 1)) + DigitVal(SubSeq(s, Len(s), Len(s)))

\* s.indexOf(pat, from): the least 0-based index >= from at which pat occurs, or -1
IndexFrom(s, pat, from) ==
    LET hits == {i \in from..(Len(s) - Len(pat)) : SubSeq(s, i + 1, i + Len(pat)) = pat}
    IN  IF hits = {} THEN -1 ELSE Min(hits)

IndexOf(s, pat) == IndexFrom(s, pat, 0)

StartsWithAt(s, at, pat) ==
    at >= 0 /\ at + Len(pat) <= Len(s) /\ SubSeq(s, at + 1, at + Len(pat)) = pat

EndsWith(s, pat) == Len(pat) <= Len(s) /\ SubSeq(s, Len(s) - Len(pat) + 1, Len(s)) = pat

\* s.replace(pat, rep) with a string pattern: the first occurrence only
replace(s, pat, rep) ==
    LET i == IndexOf(s, pat)
    IN  IF i < 0 THEN s
        ELSE SubSeq(s, 1, i) \o rep \o SubSeq(s, i + Len(pat) + 1, Len(s))

WhiteSpace == {" ", "\n", "\t", "\r", "\f"}

RECURSIVE trimStart(_)
trimStart(s) ==
    IF Len(s) > 0 /\ SubSeq(s, 1, 1) \in WhiteSpace
    THEN trimStart(SubSeq(s, 2, Len(s))) ELSE s

RECURSIVE trimEnd(_)
trimEnd(s) ==
    IF Len(s) > 0 /\ SubSeq(s, Len(s), Len(s)) \in WhiteSpace
    THEN trimEnd(SubSeq(s, 1, Len(s) - 1)) ELSE s

\* String.prototype.trim
trim(s) == trimEnd(trimStart(s))


(***************************************************************************)
(* Inputs of the constructor and external collaborators.                   *)
(***************************************************************************)
\* PageFormats[format] by orientation, in output units
pageWidth == 20
pageHeight == 60

\* globalOptions.margin
marginHorizontal == 2
marginVertical == 1

\* unit "pt"
scaleFactor == 1

\* this.lineWidth = 0.200025, in millionths
lineWidthMicro == 200025

\* font names: an ordinary one and one that is a canonical array index
FontNames == {"A", "7"}

\* globalOptions.fonts: the i-th entry of the list carries its own url and style
FontInput(name, i) == [name |-> name, url |-> "u" \o Dec(i), style |-> "s" \o Dec(i)]

FontLists ==
    UNION {{[i \in 1..n |-> FontInput(f[i], i)] : f \in [1..n -> FontNames]} : n \in 0..MaxFonts}

\* new Date() formatted by sprintf("%02d%02d%02d%02d%02d%02d", ...)
timestamp == "20250102030405"

\* pako's deflate is a pure function whose bytes lie outside the model: a zlib
\* stream starts with 0x78 ("x") and ends with a checksum byte that may be any
\* byte, a white-space byte included.
CheckBytes == <<"Z", " ", "\n">>

deflate(data) == "x" \o Dec(Len(data)) \o CheckBytes[(Len(data) % 3) + 1]

compressString(data) ==
    [bufferLength |-> Len(deflate(data)), compressedContent |-> deflate(data)]

\* the bytes fetch(url) delivers
FontBytes(url) == "ttf:" \o url

ttfTransformer(url) ==
    [fontData |-> deflate(FontBytes(url)),
     properties |-> [ascent |-> 900, capHeight |-> 700, descent |-> -200,
                     firstChar |-> 32, flags |-> 32, italicAngle |-> 0,
                     lastChar |-> 255, stemV |-> 80]]

(***************************************************************************)
(* Inputs of insertText.  An options object is a record holding the keys   *)
(* the caller passed; a missing key is an undefined option.                *)
(***************************************************************************)
Alphabet == {"a", "W", " "}

RECURSIVE Strings(_)
Strings(n) ==
    IF n = 0 THEN {""}
    ELSE Strings(n - 1) \cup {t \o c : t \in {u \in Strings(n - 1) : Len(u) = n - 1},
                                        c \in Alphabet}

\* the merge of two options objects with disjoint keys
Merge(a, b) == [k \in DOMAIN a \cup DOMAIN b |-> IF k \in DOMAIN a THEN a[k] ELSE b[k]]

NoOptions == [k \in {} |-> 0]

OneOption(key, value) == [k \in {key} |-> value]

ViewBoxOptions ==
    {NoOptions} \cup
    {OneOption("viewBox", [height |-> 30, width |-> w, coordinates |-> [x |-> 1, y |-> 3]]) :
        w \in {5, 7}}

CoordinatesOptions == {NoOptions, OneOption("coordinates", [x |-> 1, y |-> 2])}

FontSizeOptions == {NoOptions, OneOption("fontSize", 2)}

PaddingOptions == {NoOptions, OneOption("paddingFromSecondLine", 1)}

AlignOptions == {NoOptions, OneOption("align", "center"), OneOption("align", "right")}

\* the options the layout specification draws from
LayoutOptions ==
    {Merge(v, Merge(c, Merge(f, Merge(p, a)))) :
        v \in ViewBoxOptions, c \in CoordinatesOptions, f \in FontSizeOptions,
        p \in PaddingOptions, a \in AlignOptions}

\* the calls the document specification draws from
DocTexts == {"aW a"}

DocOptions ==
    {NoOptions,
     Merge(OneOption("fontSize", 2),
           OneOption("viewBox", [height |-> 30, width |-> 5, coordinates |-> [x |-> 1, y |-> 3]]))}

(***************************************************************************)
(* The image functions.  A Uint8Array is a sequence of bytes 0..255;       *)
(* uint8Array[i] is element i + 1 of the sequence, and undefined beyond    *)
(* the end.                                                                *)
(***************************************************************************)
Has(uint8Array, i) == i >= 0 /\ i < Len(uint8Array)

\* uint8Array[i] === v
Is(uint8Array, i, v) == Has(uint8Array, i) /\ uint8Array[i + 1] = v

\* uint8Array[i] as an operand of << or |: ToInt32(undefined) is 0
Bits(uint8Array, i) == IF Has(uint8Array, i) THEN uint8Array[i + 1] ELSE 0

\* (b3 << 24) | (b2 << 16) | (b1 << 8) | b0 on bytes: << and | work on signed
\* 32-bit integers, so bit 7 of b3 is the sign and the other bits add up
Int32Of(b3, b2, b1, b0) ==
    (IF b3 >= 128 THEN b3 - 256 ELSE b3) * 2^24 + b2 * 2^16 + b1 * 2^8 + b0

Returned(format, width, height) ==
    [ok |-> TRUE, format |-> format, width |-> width, height |-> height, error |-> ""]

Thrown(message) ==
    [ok |-> FALSE, format |-> "", width |-> 0, height |-> 0, error |-> message]

getImageType(uint8Array) ==
    IF \/ Is(uint8Array, 0, 137)
       \/ Is(uint8Array, 1, 80)
       \/ Is(uint8Array, 2, 78)
       \/ Is(uint8Array, 3, 71)
    THEN Returned("png", 0, 0)
    ELSE IF Is(uint8Array, 0, 255) \/ Is(uint8Array, 1, 216)
    THEN Returned("jpeg", 0, 0)
    ELSE Thrown("Unknown image type.")

getPngDimensions(uint8Array) ==
    IF ~ (/\ Is(uint8Array, 0, 137)
          /\ Is(uint8Array, 1, 80)
          /\ Is(uint8Array, 2, 78)
          /\ Is(uint8Array, 3, 71))
    THEN Thrown("Not a valid PNG file")
    ELSE Returned("png",
                  Int32Of(Bits(uint8Array, 16), Bits(uint8Array, 17),
                          Bits(uint8Array, 18), Bits(uint8Array, 19)),
                  Int32Of(Bits(uint8Array, 20), Bits(uint8Array, 21),
                          Bits(uint8Array, 22), Bits(uint8Array, 23)))

\* the while loop of getJpegDimensions, entered with the given offset
RECURSIVE JpegScan(_, _)
JpegScan(uint8Array, offset) ==
    IF ~ (offset < Len(uint8Array)) \/ ~ Is(uint8Array, offset, 255)
    THEN Thrown("Coudn't calculate the dimensions of the Image.")
    ELSE IF Is(uint8Array, offset + 1, 192) \/ Is(uint8Array, offset + 1, 194)
    THEN Returned("jpeg",
                  Bits(uint8Array, offset + 7) * 2^8 + Bits(uint8Array, offset + 8),
                  Bits(uint8Array, offset + 5) * 2^8 + Bits(uint8Array, offset + 6))
    \* a number plus undefined is NaN, and NaN < length ends the loop
    ELSE IF ~ Has(uint8Array, offset + 3)
    THEN Thrown("Coudn't calculate the dimensions of the Image.")
    ELSE JpegScan(uint8Array,
                  offset + 2 + uint8Array[offset + 3] * 2^8 + uint8Array[offset + 4])

getJpegDimensions(uint8Array) ==
    IF ~ (Is(uint8Array, 0, 255) /\ Is(uint8Array, 1, 216))
    THEN Thrown("Not a valid JPEG file")
    ELSE JpegScan(uint8Array, 2)

getImageDimensions(uint8Array) ==
    IF Len(uint8Array) < 24
    THEN Thrown("Invalid image binary.")
    ELSE IF /\ Is(uint8Array, 0, 137)
            /\ Is(uint8Array, 1, 80)
            /\ Is(uint8Array, 2, 78)
            /\ Is(uint8Array, 3, 71)
    THEN getPngDimensions(uint8Array)
    ELSE IF Is(uint8Array, 0, 255) /\ Is(uint8Array, 1, 216)
    THEN getJpegDimensions(uint8Array)
    ELSE Thrown("Unsupported image format.")

(***************************************************************************)
(* The byte arrays the image specification draws from: four leading bytes  *)
(* that match the signatures in part or in full, followed by a PNG header  *)
(* or by JPEG segments, cut at several lengths.                            *)
(***************************************************************************)
RECURSIVE ZeroBytes(_)
ZeroBytes(k) == IF k <= 0 THEN <<>> ELSE <<0>> \o ZeroBytes(k - 1)

Prefix(bytes, n) == SubSeq(bytes, 1, IF n < Len(bytes) THEN n ELSE Len(bytes))

Heads == {<<b0, b1, b2, b3>> : b0 \in {137, 255, 0}, b1 \in {80, 216, 0},
                               b2 \in {78, 255}, b3 \in {71, 192, 224}}

\* a width or height of a PNG header, as its four bytes
DimWords == {<<0, 0, 0, 1>>, <<0, 0, 2, 3>>, <<127, 255, 255, 255>>,
             <<128, 0, 0, 0>>, <<255, 255, 255, 255>>}

\* bytes 4..23 of a PNG: the rest of the signature, the IHDR length and type,
\* the width and the height
PngTail(w, h) == <<13, 10, 26, 10, 0, 0, 0, 13, 73, 72, 68, 82>> \o w \o h

\* what follows a frame marker: segment length, precision, height, width
FrameTail(h, w) == <<0, 17, 8>> \o h \o w \o ZeroBytes(17)

\* what follows the marker of a segment with a payload of p bytes: the length,
\* the payload, and a frame segment
SegmentTail(p, h, w) ==
    <<(p + 2) \div 256, (p + 2) % 256>> \o ZeroBytes(p) \o <<255, 192>> \o FrameTail(h, w)

JpegDims == {<<<<0, 1>>, <<1, 0>>>>, <<<<255, 255>>, <<0, 2>>>>}

Tails ==
    {PngTail(w, h) : w \in DimWords, h \in DimWords}
        \cup {FrameTail(d[1], d[2]) : d \in JpegDims}
        \cup {SegmentTail(p, d[1], d[2]) : p \in {0, MaxPayload}, d \in JpegDims}
        \cup {<<0, 2, 255, 224>> \o SegmentTail(p, d[1], d[2]) :
                  p \in {0, MaxPayload}, d \in JpegDims}
        \cup {ZeroBytes(20)}

CutLengths == {0, 1, 2, 4, 23, 24, 25, 27, 64}

ImageInputs == {Prefix(head \o tail, n) : head \in Heads, tail \in Tails, n \in CutLengths}

\* no image function has been called.  pc, offset, nan and visited follow a
\* call of getJpegDimensions through its loop: the offset with which the loop
\* test is reached, whether it is NaN, and the offsets of the iterations run
NoImage == [encodedImage |-> <<>>, imageType |-> <<>>, dimensions |-> <<>>,
            pc |-> "none", offset |-> 0, nan |-> FALSE, visited |-> {}, jpeg |-> <<>>]

(***************************************************************************)
(* The state of one PaperBit instance and of its calls in flight.          *)
(***************************************************************************)
VARIABLES
    buffer,         \* this.buffer
    pages,          \* this.pages; pages[i + 1] is the program's pages[i]
    currentPage,    \* this.currentPage (0-based)
    objectCount,    \* this.objectCount
    globalYTrakerH, \* this.globalYTraker, in half units
    fonts,          \* this.fonts, in key (insertion) order
    offsets,        \* this.offsets; its domain is the set of indices assigned
    buildPc,        \* the position of build(): "idle", "font", "fontDone"
    buildFont,      \* the index in fonts of the font whose putFont is running
    builds,         \* the number of build() calls made
    insertPageCalls, \* history: the number of explicit insertPage() calls made
    pagesAtBuild,   \* history: insertPageCalls when the latest build() was called
    pdf,            \* the bytes build() returned last ("" before)
    calls,          \* the insertText calls made, with the position of each
    ops,            \* the number of calls made on the instance
    image           \* the bytes handed to the image functions, and what they returned

vars == <<buffer, pages, currentPage, objectCount, globalYTrakerH, fonts, offsets,
          buildPc, buildFont, builds, insertPageCalls, pagesAtBuild, pdf, calls, ops,
          image>>

\* the part of the instance that build() and its helpers change
Doc == [buffer |-> buffer, objectCount |-> objectCount, offsets |-> offsets,
        fonts |-> fonts]

(***************************************************************************)
(* constructor                                                             *)
(***************************************************************************)
\* "%PDF-1.7\n%\xBA\xDF\xAC\xE0\n": one character for each of the four bytes
InitialBuffer == "%PDF-1.7\n%bdae\n"

\* a property key that is a canonical array index ("0", "7", "12"): the keys
\* of an object are enumerated with these first, in ascending numeric order,
\* and the other string keys after them in the order of their creation
IsArrayIndex(name) == AllDigits(name) /\ (Len(name) = 1 \/ SubSeq(name, 1, 1) # "0")

\* the place (1-based) a new key takes in the enumeration of the keys of fs
KeyPlace(fs, name) ==
    IF ~IsArrayIndex(name) THEN Len(fs) + 1
    ELSE 1 + Cardinality({i \in 1..Len(fs) :
                             /\ IsArrayIndex(fs[i].name)
                             /\ ParseDec(fs[i].name) < ParseDec(name)})

\* this.fonts[font.name] = {...}: fs lists the entries in the order in which
\* Object.keys and for...in enumerate them; an existing key keeps its place
\* and takes the new value.  seq is history: the rank of the first
\* registration of the name among the distinct names.
registerFont(fs, font, oc) ==
    LET length == Len(fs)
        known == {i \in 1..Len(fs) : fs[i].name = font.name}
        entry == [id |-> "F" \o Str(length + 1), resourceId |-> oc,
                  name |-> font.name, style |-> font.style, url |-> font.url,
                  seq |-> IF known = {} THEN length + 1
                          ELSE fs[CHOOSE i \in known : TRUE].seq]
        at == KeyPlace(fs, font.name)
    IN  IF known # {}
        THEN [i \in 1..Len(fs) |-> IF fs[i].name = font.name THEN entry ELSE fs[i]]
        ELSE SubSeq(fs, 1, at - 1) \o <<entry>> \o SubSeq(fs, at, Len(fs))

RECURSIVE registerFonts(_, _, _)
registerFonts(fs, list, oc) ==
    IF list = <<>> THEN fs
    ELSE registerFonts(registerFont(fs, Head(list), oc), Tail(list), oc)

\* sprintf("%.2f w", this.lineWidth * this.scaleFactor)
LineWidthOp == FmtHundredths((lineWidthMicro * scaleFactor + 5000) \div 10000) \o " w"

\* writeOnPage on the page at 0-based index cp
writeOnPage(ps, cp, content) ==
    [ps EXCEPT ![cp + 1] = @ \o content \o "\n"]

(***************************************************************************)
(* write, createObject, createStream                                       *)
(***************************************************************************)
write(st, content) == [st EXCEPT !.buffer = @ \o content \o "\n"]

\* the bytes that write appends for each of contents in turn
RECURSIVE Written(_)
Written(contents) ==
    IF contents = <<>> THEN "" ELSE Head(contents) \o "\n" \o Written(Tail(contents))

\* write(c) for each c of contents in turn
writeAll(st, contents) == [st EXCEPT !.buffer = @ \o Written(contents)]

\* this.offsets[n] = this.buffer.length
setOffset(st, n) == [st EXCEPT !.offsets = (n :> Len(st.buffer)) @@ @]

\* mutant: the header is written with the counter's value before the increment
createObject_stale(st) ==
    LET n == st.objectCount + 1
    IN  write(setOffset([st EXCEPT !.objectCount = n], n), Str(st.objectCount) \o " 0 obj")

createObject(st) ==
    LET n == st.objectCount + 1
    IN  write(setOffset([st EXCEPT !.objectCount = n], n), Str(n) \o " 0 obj")

createStream(st, data) == writeAll(st, <<"stream", trim(data), "endstream">>)

(***************************************************************************)
(* build                                                                   *)
(***************************************************************************)
Placeholder == "____FONTS_PLACEHOLDER____"

Catalog(st) ==
    writeAll(setOffset(st, 1),
             <<"1 0 obj", "<</Pages 3 0 R /Type/Catalog>>", "endobj\n">>)

Metadata(st) ==
    writeAll(setOffset(st, 2),
             <<"2 0 obj",
               "<</CreationDate (D:" \o timestamp \o ")/ModDate (D:" \o timestamp
                   \o ")/Author(PaperBit)/Creator(PaperBit)/Producer(PaperBit)>>",
               "endobj\n">>)

\* mutant: the contents objects between the pages are forgotten
KidRef_dense(i) == 5 + i

\* `${5 + 2 * i} 0 R ` for the page at 0-based index i
KidRef(i) == 5 + 2 * i

RECURSIVE Kids(_, _)
Kids(i, n) == IF i >= n THEN "" ELSE Str(KidRef(i)) \o " 0 R " \o Kids(i + 1, n)

PageIndexes(st, ps) ==
    writeAll(setOffset(st, 3),
             <<"3 0 obj",
               "<</Count " \o Str(Len(ps)) \o "/Kids [ " \o Kids(0, Len(ps))
                   \o "]/Type/Pages>>",
               "endobj\n">>)

Resources(st) ==
    writeAll(setOffset(st, 4),
             <<"4 0 obj",
               "<</Font<<" \o Placeholder
                   \o ">>/ProcSet[/PDF/Text/ImageB/ImageC/ImageI]/XObject<<>>>>",
               "endobj\n">>)

\* one iteration of the page loop, for the page content pageContent
Page(st, pageContent) ==
    LET s1 == createObject(st)
        s2 == writeAll(s1,
                  <<"<</Contents " \o Str(s1.objectCount + 1) \o " 0 R /MediaBox[0 0 "
                        \o Fmt2(pageWidth) \o " " \o Fmt2(pageHeight)
                        \o "]/Parent 3 0 R /Resources 4 0 R /Type/Page>>",
                    "endobj\n">>)
        c  == compressString(pageContent)
        s3 == write(createObject(s2),
                    "<</Filter/FlateDecode/Length " \o Str(c.bufferLength) \o ">>")
    IN  write(createStream(s3, c.compressedContent), "endobj\n")

\* mutant: the loop stops one page early
RECURSIVE Pages_short(_, _)
Pages_short(st, ps) ==
    IF Len(ps) <= 1 THEN st ELSE Pages_short(Page(st, Head(ps)), Tail(ps))

RECURSIVE Pages(_, _)
Pages(st, ps) == IF ps = <<>> THEN st ELSE Pages(Page(st, Head(ps)), Tail(ps))

\* build() up to the first await
BuildHead(st, ps) == Pages(Resources(PageIndexes(Metadata(Catalog(st)), ps)), ps)

\* mutant: font.resourceId keeps the number stored at registration
putFont_stale(st, k) ==
    LET font == st.fonts[k]
        t  == ttfTransformer(font.url)
        pr == t.properties
        s1 == createObject(st)
        s2 == s1
        s3 == writeAll(s2,
                  <<"<</BaseFont/" \o font.name \o "/Encoding/WinAnsiEncoding/FontDescriptor "
                        \o Str(s2.objectCount + 1) \o " 0 R /Subtype/TrueType/Type/Font>>",
                    "endobj\n">>)
        s4 == createObject(s3)
        s5 == writeAll(s4,
                  <<"<</Ascent " \o Str(pr.ascent) \o "/BaseFont /" \o font.name
                        \o "/CapHeight " \o Str(pr.capHeight) \o "/Descent " \o Str(pr.descent)
                        \o "/FirstChar " \o Str(pr.firstChar) \o "/Flags " \o Str(pr.flags)
                        \o "/FontBBox []/FontFile2 " \o Str(s4.objectCount + 1)
                        \o " 0 R /ItalicAngle " \o Str(pr.italicAngle) \o "/LastChar "
                        \o Str(pr.lastChar) \o "/StemV " \o Str(pr.stemV)
                        \o "/Type/FontDescriptor>>",
                    "endobj\n">>)
        s6 == createObject(s5)
        s7 == setOffset(s6, s6.objectCount)
        s8 == write(s7, "<</Filter/FlateDecode/Length " \o Str(Len(t.fontData)) \o ">>")
    IN  write(createStream(s8, t.fontData), "endobj\n")

\* putFont after ttfTransformer has resolved, for the font at index k of this.fonts
putFont(st, k) ==
    LET font == st.fonts[k]
        t  == ttfTransformer(font.url)
        pr == t.properties
        s1 == createObject(st)
        s2 == [s1 EXCEPT !.fonts[k].resourceId = s1.objectCount]
        s3 == writeAll(s2,
                  <<"<</BaseFont/" \o font.name \o "/Encoding/WinAnsiEncoding/FontDescriptor "
                        \o Str(s2.objectCount + 1) \o " 0 R /Subtype/TrueType/Type/Font>>",
                    "endobj\n">>)
        s4 == createObject(s3)
        s5 == writeAll(s4,
                  <<"<</Ascent " \o Str(pr.ascent) \o "/BaseFont /" \o font.name
                        \o "/CapHeight " \o Str(pr.capHeight) \o "/Descent " \o Str(pr.descent)
                        \o "/FirstChar " \o Str(pr.firstChar) \o "/Flags " \o Str(pr.flags)
                        \o "/FontBBox []/FontFile2 " \o Str(s4.objectCount + 1)
                        \o " 0 R /ItalicAngle " \o Str(pr.italicAngle) \o "/LastChar "
                        \o Str(pr.lastChar) \o "/StemV " \o Str(pr.stemV)
                        \o "/Type/FontDescriptor>>",
                    "endobj\n">>)
        s6 == createObject(s5)
        s7 == setOffset(s6, s6.objectCount)
        s8 == write(s7, "<</Filter/FlateDecode/Length " \o Str(Len(t.fontData)) \o ">>")
    IN  write(createStream(s8, t.fontData), "endobj\n")

\* mutant: the loop runs while i < this.objectCount
RECURSIVE XrefEntries_short(_, _, _)
XrefEntries_short(offs, from, to) ==
    IF from >= to THEN <<>>
    ELSE <<Pad10(offs[from]) \o " 00000 n ">> \o XrefEntries_short(offs, from + 1, to)

\* the lines sprintf("%010d 00000 n ", this.offsets[i]) for i = from .. to
RECURSIVE XrefEntries(_, _, _)
XrefEntries(offs, from, to) ==
    IF from > to THEN <<>>
    ELSE <<Pad10(offs[from]) \o " 00000 n ">> \o XrefEntries(offs, from + 1, to)

\* the cross-reference table and the trailer
CrossRefAndTrailer(st) ==
    LET bufferLength == Len(st.buffer)
    IN  writeAll(st,
            <<"xref", "0 " \o Str(st.objectCount + 1), "0000000000 65535 f ">>
            \o XrefEntries(st.offsets, 1, st.objectCount)
            \o <<"trailer", "<<", "/Root 1 0 R", "/Info 2 0 R",
                  "/Size " \o Str(st.objectCount + 1), ">>", "startxref",
                  Str(bufferLength), "%%EOF">>)

RECURSIVE FontResource(_, _)
FontResource(fs, k) ==
    IF k > Len(fs) THEN ""
    ELSE "/" \o fs[k].id \o " " \o Str(fs[k].resourceId) \o " 0 R " \o FontResource(fs, k + 1)

\* the replacement of the fonts placeholder
ReplacePlaceholder(st) ==
    [st EXCEPT !.buffer = replace(@, Placeholder, trim(FontResource(st.fonts, 1)))]

\* build() after the last await
BuildTail(st) == ReplacePlaceholder(CrossRefAndTrailer(st))

(***************************************************************************)
(* The font metrics text() reads (opentype.js, an external collaborator):  *)
(* one representative font, with glyphs of two widths and one kerned pair. *)
(***************************************************************************)
unitsPerEm == 1

\* glyph.advanceWidth || 0
advanceWidth(c) == IF c = "W" THEN 3 ELSE 1

\* font.getKerningValue(prevGlyph, glyph) || 0
getKerningValue(p, c) == IF p = "W" /\ c = "a" THEN -1 ELSE 0

RECURSIVE GlyphSum(_, _)
GlyphSum(t, i) ==
    IF i > Len(t) THEN 0
    ELSE advanceWidth(SubSeq(t, i, i))
            + (IF i > 1 THEN getKerningValue(SubSeq(t, i - 1, i - 1), SubSeq(t, i, i)) ELSE 0)
            + GlyphSum(t, i + 1)

\* calculateTextWidth, in half units
calculateTextWidthH(t, fontSize) ==
    IF Len(t) = 0 THEN 0 ELSE (2 * GlyphSum(t, 1) * fontSize) \div unitsPerEm

(***************************************************************************)
(* hexToRgb                                                                *)
(***************************************************************************)
HexDigits == <<"0", "1", "2", "3", "4", "5", "6", "7", "8", "9",
               "A", "B", "C", "D", "E", "F", "a", "b", "c", "d", "e", "f">>

IsHex(c) == \E i \in 1..22 : HexDigits[i] = c

HexVal(c) == LET i == CHOOSE j \in 1..22 : HexDigits[j] = c
             IN  IF i > 16 THEN i - 7 ELSE i - 1

\* hex.replace(/^#/, "")
StripHash(hex) == IF StartsWithAt(hex, 0, "#") THEN SubSeq(hex, 2, Len(hex)) ELSE hex

\* /^([0-9A-Fa-f]{3}|[0-9A-Fa-f]{6})$/.test(hex)
ValidHex(h) == Len(h) \in {3, 6} /\ \A i \in 1..Len(h) : IsHex(SubSeq(h, i, i))

\* hexToRgb: <<r, g, b>>, or <<>> where the program throws
hexToRgb(hex) ==
    LET h == StripHash(hex)
        d(i) == HexVal(SubSeq(h, i, i))
    IN  IF ~ValidHex(h) THEN <<>>
        ELSE IF Len(h) = 3 THEN <<17 * d(1), 17 * d(2), 17 * d(3)>>
        ELSE <<16 * d(1) + d(2), 16 * d(3) + d(4), 16 * d(5) + d(6)>>

\* sprintf("%.3f", c / 255)
Fmt3Color(c) ==
    LET m == (2000 * c + 255) \div 510
        f == m % 1000
    IN  Dec(m \div 1000) \o "." \o Zeros(3 - Len(Dec(f))) \o Dec(f)

(***************************************************************************)
(* text                                                                    *)
(***************************************************************************)
\* options?.key ?? default
Opt(o, key, default) == IF key \in DOMAIN o THEN o[key] ELSE default

\* options?.viewBox === undefined || options?.viewBox === "page"
IsViewBoxPage(o) == "viewBox" \notin DOMAIN o

\* the viewBox of the destructuring, widths and heights in output units
ViewBoxOf(o) ==
    IF IsViewBoxPage(o)
    THEN [height |-> pageHeight - 2 * marginHorizontal,
          width |-> pageWidth - 2 * marginVertical,
          coordinates |-> [x |-> 0, y |-> 0]]
    ELSE [coordinates |-> o.viewBox.coordinates,
          height |-> o.viewBox.height * scaleFactor,
          width |-> o.viewBox.width * scaleFactor]

\* Math.floor(fontSize / 0.75)
LineHeight(fontSize) == (4 * fontSize) \div 3

\* the font text() selects: <<>> where the lookup throws a TypeError
SelectFont(fs, o) ==
    LET named == {k \in 1..Len(fs) : "font" \in DOMAIN o /\ fs[k].name = o.font}
    IN  IF fs = <<>> THEN <<>>
        ELSE IF named # {} THEN <<fs[CHOOSE k \in named : TRUE]>>
        ELSE <<fs[1]>>

\* mutant: a line may fill the viewbox exactly
Overflows_exceeds(currentWidth, charactersWidth, x, padding, width) ==
    currentWidth + charactersWidth + x + padding > width

\* the test of the wrapping loop, all operands in half units
Overflows(currentWidth, charactersWidth, x, padding, width) ==
    currentWidth + charactersWidth + x + padding >= width

\* mutant: the character that closes a line is not carried to the next one
RECURSIVE WrapLoop_dropsBreak(_, _, _, _, _, _, _)
WrapLoop_dropsBreak(w, t, i, fontSize, xH, padH, widthH) ==
    IF i > Len(t) THEN w
    ELSE LET c == SubSeq(t, i, i)
             charactersWidth == calculateTextWidthH(c, fontSize)
         IN  IF Overflows(w.currentWidth, charactersWidth, xH,
                          IF w.firstLineCompleted THEN padH ELSE 0, widthH)
             THEN WrapLoop_dropsBreak([lines |-> Append(w.lines, w.currentLine),
                                       currentLine |-> "",
                                       currentWidth |-> 0,
                                       firstLineCompleted |-> TRUE],
                                      t, i + 1, fontSize, xH, padH, widthH)
             ELSE WrapLoop_dropsBreak([w EXCEPT !.currentLine = @ \o c,
                                                !.currentWidth = @ + charactersWidth],
                                      t, i + 1, fontSize, xH, padH, widthH)

\* the wrapping loop from character i on; w holds lines, currentLine,
\* currentWidth (half units) and firstLineCompleted
RECURSIVE WrapLoop(_, _, _, _, _, _, _)
WrapLoop(w, t, i, fontSize, xH, padH, widthH) ==
    IF i > Len(t) THEN w
    ELSE LET c == SubSeq(t, i, i)
             charactersWidth == calculateTextWidthH(c, fontSize)
         IN  IF Overflows(w.currentWidth, charactersWidth, xH,
                          IF w.firstLineCompleted THEN padH ELSE 0, widthH)
             THEN WrapLoop([lines |-> Append(w.lines, w.currentLine),
                            currentLine |-> c,
                            currentWidth |-> charactersWidth,
                            firstLineCompleted |-> TRUE],
                           t, i + 1, fontSize, xH, padH, widthH)
             ELSE WrapLoop([w EXCEPT !.currentLine = @ \o c,
                                     !.currentWidth = @ + charactersWidth],
                           t, i + 1, fontSize, xH, padH, widthH)

\* mutant: the line left over by the loop is not pushed
WrapLines_noLast(t, fontSize, xH, padH, widthH) ==
    LET w == WrapLoop([lines |-> <<>>, currentLine |-> "", currentWidth |-> 0,
                       firstLineCompleted |-> FALSE],
                      t, 1, fontSize, xH, padH, widthH)
    IN  [lines |-> w.lines, firstLineCompleted |-> w.firstLineCompleted]

\* lines after the loop and the final push
WrapLines(t, fontSize, xH, padH, widthH) ==
    LET w == WrapLoop([lines |-> <<>>, currentLine |-> "", currentWidth |-> 0,
                       firstLineCompleted |-> FALSE],
                      t, 1, fontSize, xH, padH, widthH)
    IN  [lines |-> IF Len(w.currentLine) # 0 THEN Append(w.lines, w.currentLine)
                   ELSE w.lines,
         firstLineCompleted |-> w.firstLineCompleted]

\* mutant: the cursor of the document is the start of every viewbox
StartYH_cursor(isViewBoxPage, gH, viewBox) == gH

\* let yTracker = isViewBoxPage ? this.globalYTraker : viewBox.coordinates.y
StartYH(isViewBoxPage, gH, viewBox) ==
    IF isViewBoxPage THEN gH ELSE 2 * viewBox.coordinates.y

\* xCoordinate of line i (0-based) by alignment, in half units
XCoordinateH(align, i, lineWidthH, o, firstLineCompleted) ==
    LET viewBox == ViewBoxOf(o)
        isPage == IsViewBoxPage(o)
        coordinates == Opt(o, "coordinates", [x |-> 0, y |-> 0])
        padding == Opt(o, "paddingFromSecondLine", 0)
    IN  CASE align = "center" ->
               (2 * viewBox.width - lineWidthH
                    + (IF isPage THEN 2 * (2 * marginVertical) ELSE 0)) \div 2
          [] align = "right" ->
               2 * viewBox.width - lineWidthH + (IF isPage THEN 2 * marginVertical ELSE 0)
          [] OTHER ->
               2 * coordinates.x + (IF isPage THEN 2 * marginVertical ELSE 0)
                    + (IF i > 0 /\ firstLineCompleted THEN 2 * padding ELSE 0)

\* mutant: an empty line advances the cursor as well
RECURSIVE DrawLoop_everyLine(_, _, _, _, _)
DrawLoop_everyLine(d, lines, i, o, firstLineCompleted) ==
    IF i > Len(lines) THEN d
    ELSE LET fontSize == Opt(o, "fontSize", 13)
             coordinates == Opt(o, "coordinates", [x |-> 0, y |-> 0])
             viewBox == ViewBoxOf(o)
             yTracker == d.yTracker + 2 * LineHeight(fontSize)
             lineWidth == calculateTextWidthH(trim(lines[i]), fontSize)
             xCoordinate == XCoordinateH(Opt(o, "align", "left"), i - 1, lineWidth, o,
                                         firstLineCompleted)
             op == "BT " \o Fmt2H((xCoordinate + 2 * viewBox.coordinates.x * scaleFactor))
                     \o " "
                     \o Fmt2H((2 * pageHeight - yTracker - 2 * coordinates.y) * scaleFactor)
                     \o " Td (" \o trim(lines[i]) \o ") Tj ET"
         IN  DrawLoop_everyLine([localBuffer |-> d.localBuffer \o op \o "\n",
                                 yTracker |-> yTracker,
                                 maxLineWidth |-> IF lineWidth > d.maxLineWidth
                                                  THEN lineWidth ELSE d.maxLineWidth],
                                lines, i + 1, o, firstLineCompleted)

\* the drawing loop from line i (1-based here) on; d holds localBuffer,
\* yTracker and maxLineWidth (half units)
RECURSIVE DrawLoop(_, _, _, _, _)
DrawLoop(d, lines, i, o, firstLineCompleted) ==
    IF i > Len(lines) THEN d
    ELSE IF Len(lines[i]) = 0 THEN DrawLoop(d, lines, i + 1, o, firstLineCompleted)
    ELSE LET fontSize == Opt(o, "fontSize", 13)
             coordinates == Opt(o, "coordinates", [x |-> 0, y |-> 0])
             viewBox == ViewBoxOf(o)
             yTracker == d.yTracker + 2 * LineHeight(fontSize)
             lineWidth == calculateTextWidthH(trim(lines[i]), fontSize)
             xCoordinate == XCoordinateH(Opt(o, "align", "left"), i - 1, lineWidth, o,
                                         firstLineCompleted)
             op == "BT " \o Fmt2H((xCoordinate + 2 * viewBox.coordinates.x * scaleFactor))
                     \o " "
                     \o Fmt2H((2 * pageHeight - yTracker - 2 * coordinates.y) * scaleFactor)
                     \o " Td (" \o trim(lines[i]) \o ") Tj ET"
         IN  DrawLoop([localBuffer |-> d.localBuffer \o op \o "\n",
                       yTracker |-> yTracker,
                       maxLineWidth |-> IF lineWidth > d.maxLineWidth THEN lineWidth
                                        ELSE d.maxLineWidth],
                      lines, i + 1, o, firstLineCompleted)

\* text() after its await: font is the selected registry entry, color the
\* result of hexToRgb, gH the value of this.globalYTraker read at line 399
text(t, o, font, color, gH) ==
    LET fontSize == Opt(o, "fontSize", 13)
        coordinates == Opt(o, "coordinates", [x |-> 0, y |-> 0])
        viewBox == ViewBoxOf(o)
        isPage == IsViewBoxPage(o)
        w == WrapLines(t, fontSize, 2 * coordinates.x,
                       2 * Opt(o, "paddingFromSecondLine", 0), 2 * viewBox.width)
        head == Fmt3Color(color[1]) \o " " \o Fmt3Color(color[2]) \o " "
                    \o Fmt3Color(color[3]) \o " rg\nBT\n/" \o font.id \o " "
                    \o Str(fontSize * scaleFactor) \o " Tf ET\n"
        d == DrawLoop([localBuffer |-> head,
                       yTracker |-> StartYH(isPage, gH, viewBox),
                       maxLineWidth |-> 0],
                      w.lines, 1, o, w.firstLineCompleted)
    IN  [buffer |-> d.localBuffer,
         heightH |-> d.yTracker - 2 * viewBox.coordinates.y + LineHeight(fontSize),
         widthH |-> d.maxLineWidth,
         isViewBoxPage |-> isPage,
         lines |-> w.lines]

(***************************************************************************)
(* Actions                                                                 *)
(***************************************************************************)
Init ==
    /\ \E list \in FontLists : fonts = registerFonts(<<>>, list, 4)
    /\ buffer = InitialBuffer
    /\ pages = <<LineWidthOp \o "\n">>
    /\ currentPage = 0
    /\ objectCount = 4
    /\ globalYTrakerH = 2 * (2 * marginHorizontal)
    /\ offsets = <<>>
    /\ buildPc = "idle"
    /\ buildFont = 0
    /\ builds = 0
    /\ insertPageCalls = 0
    /\ pagesAtBuild = 0
    /\ pdf = ""
    /\ calls = <<>>
    /\ ops = 0
    /\ image = NoImage

SetDoc(st) ==
    /\ buffer' = st.buffer
    /\ objectCount' = st.objectCount
    /\ offsets' = st.offsets
    /\ fonts' = st.fonts

\* the caller awaits every promise: no insertText and no build is in flight
Awaited ==
    /\ buildPc = "idle"
    /\ \A k \in 1..Len(calls) : calls[k].stage \in {"written", "failed"}

InsertPage ==
    /\ Awaited
    /\ ops < MaxOps
    /\ ops' = ops + 1
    /\ insertPageCalls' = insertPageCalls + 1
    /\ currentPage' = currentPage + 1
    /\ pages' = writeOnPage(Append(pages, ""), currentPage + 1, LineWidthOp)
    /\ UNCHANGED <<image, buffer, objectCount, globalYTrakerH, fonts, offsets, buildPc,
                   buildFont, builds, pagesAtBuild, pdf, calls>>

\* build() is called: everything up to the first await, which is the whole of
\* build() when no font is registered
BuildCall ==
    /\ Awaited
    /\ ops < MaxOps
    /\ ops' = ops + 1
    /\ builds' = builds + 1
    /\ pagesAtBuild' = insertPageCalls
    /\ IF fonts = <<>>
       THEN LET st == BuildTail(BuildHead(Doc, pages))
            IN  SetDoc(st) /\ pdf' = st.buffer /\ UNCHANGED <<buildPc, buildFont>>
       ELSE /\ SetDoc(BuildHead(Doc, pages))
            /\ buildPc' = "font"
            /\ buildFont' = 1
            /\ UNCHANGED pdf
    /\ UNCHANGED <<image, pages, currentPage, globalYTrakerH, insertPageCalls, calls>>

\* ttfTransformer resolves and putFont runs to its end
PutFont ==
    /\ buildPc = "font"
    /\ SetDoc(putFont(Doc, buildFont))
    /\ buildPc' = "fontDone"
    /\ UNCHANGED <<image, pages, currentPage, globalYTrakerH, buildFont, builds,
                   pagesAtBuild, pdf, calls, ops,
                   insertPageCalls>>

\* build() resumes after `await this.putFont(...)` with a further font
BuildNextFont ==
    /\ buildPc = "fontDone"
    /\ buildFont < Len(fonts)
    /\ buildFont' = buildFont + 1
    /\ buildPc' = "font"
    /\ UNCHANGED <<image, buffer, pages, currentPage, objectCount, globalYTrakerH, fonts,
                   offsets, builds, pagesAtBuild, pdf, calls, ops,
                   insertPageCalls>>

\* build() resumes after the last `await this.putFont(...)` and returns
BuildFinish ==
    /\ buildPc = "fontDone"
    /\ buildFont = Len(fonts)
    /\ LET st == BuildTail(Doc) IN SetDoc(st) /\ pdf' = st.buffer
    /\ buildPc' = "idle"
    /\ UNCHANGED <<image, pages, currentPage, globalYTrakerH, buildFont, builds,
                   pagesAtBuild, calls, ops,
                   insertPageCalls>>

\* text() up to its await: the options are read, the font is looked up and
\* the colour is parsed; a throw rejects the promise of insertText at once
StartCall(t, o, fs) ==
    LET font == SelectFont(fs, o)
        color == hexToRgb(Opt(o, "color", "#000000"))
    IN  [text |-> t, o |-> o, font |-> font, color |-> color, res |-> <<>>,
         g |-> 0, seen |-> <<>>,
         stage |-> IF font = <<>> \/ color = <<>> THEN "failed" ELSE "fetching"]

\* the call insertText(t, o) made now; seen is history: the pages, the current
\* page and the tracker as they are when the call is made
Called(t, o) ==
    [StartCall(t, o, fonts) EXCEPT
        !.seen = <<[pages |-> pages, currentPage |-> currentPage,
                    globalYTrakerH |-> globalYTrakerH]>>]

\* insertText(t, o) is called
InsertTextCall ==
    /\ Awaited
    /\ ops < MaxOps
    /\ ops' = ops + 1
    /\ \E t \in DocTexts, o \in DocOptions : calls' = Append(calls, Called(t, o))
    /\ UNCHANGED <<image, buffer, pages, currentPage, objectCount, globalYTrakerH, fonts,
                   offsets, buildPc, buildFont, builds, pagesAtBuild, pdf,
                   insertPageCalls>>

\* the font of call k has been fetched: text() lays the text out and returns
TextResume ==
    \E k \in 1..Len(calls) :
        /\ calls[k].stage = "fetching"
        /\ calls' = [calls EXCEPT ![k].stage = "laidOut",
                                  ![k].g = globalYTrakerH,
                                  ![k].res = <<text(calls[k].text, calls[k].o,
                                                    calls[k].font[1], calls[k].color,
                                                    globalYTrakerH)>>]
        /\ UNCHANGED <<image, buffer, pages, currentPage, objectCount, globalYTrakerH, fonts,
                       offsets, buildPc, buildFont, builds, pagesAtBuild, pdf, ops,
                   insertPageCalls>>

\* mutant: the colour and font directive reach the page before the rejection
FetchFail_written ==
    \E k \in 1..Len(calls) :
        /\ calls[k].stage = "fetching"
        /\ calls' = [calls EXCEPT ![k].stage = "failed"]
        /\ pages' = writeOnPage(pages, currentPage, "BT")
        /\ UNCHANGED <<image, buffer, currentPage, objectCount, globalYTrakerH, fonts,
                       offsets, buildPc, buildFont, builds, pagesAtBuild, pdf, ops,
                       insertPageCalls>>

\* the fetch of the font of call k fails: text() and insertText reject
FetchFail ==
    \E k \in 1..Len(calls) :
        /\ calls[k].stage = "fetching"
        /\ calls' = [calls EXCEPT ![k].stage = "failed"]
        /\ UNCHANGED <<image, buffer, pages, currentPage, objectCount, globalYTrakerH, fonts,
                       offsets, buildPc, buildFont, builds, pagesAtBuild, pdf, ops,
                   insertPageCalls>>

\* this.globalYTraker after insertText has written a result of text()
NextTrackerH(res, gH) == IF res.isViewBoxPage THEN res.heightH ELSE gH

\* insertText resumes after `await this.text(...)`
InsertTextWrite ==
    \E k \in 1..Len(calls) :
        /\ calls[k].stage = "laidOut"
        /\ pages' = writeOnPage(pages, currentPage, calls[k].res[1].buffer)
        /\ globalYTrakerH' = NextTrackerH(calls[k].res[1], globalYTrakerH)
        /\ calls' = [calls EXCEPT ![k].stage = "written"]
        /\ UNCHANGED <<image, buffer, currentPage, objectCount, fonts, offsets, buildPc,
                       buildFont, builds, pagesAtBuild, pdf, ops,
                   insertPageCalls>>

Next ==
    \/ InsertPage
    \/ InsertTextCall
    \/ TextResume
    \/ InsertTextWrite
    \/ BuildCall
    \/ PutFont
    \/ BuildNextFont
    \/ BuildFinish

Spec == Init /\ [][Next]_vars

(***************************************************************************)
(* The calls specification: insertPage and insertText calls, awaited, on a *)
(* document that is not built; a call may name a colour that is no hex     *)
(* colour, and the fetch of a font may fail.                               *)
(***************************************************************************)
CallOptions == DocOptions \cup {OneOption("color", "#12")}

\* insertText(t, o) is called with any of the call options
InsertTextAny ==
    /\ Awaited
    /\ ops < MaxOps
    /\ ops' = ops + 1
    /\ \E t \in DocTexts, o \in CallOptions : calls' = Append(calls, Called(t, o))
    /\ UNCHANGED <<image, buffer, pages, currentPage, objectCount, globalYTrakerH, fonts,
                   offsets, buildPc, buildFont, builds, pagesAtBuild, pdf,
                   insertPageCalls>>

NextCalls == InsertPage \/ InsertTextAny \/ TextResume \/ FetchFail \/ InsertTextWrite

SpecCalls == Init /\ [][NextCalls]_vars

(***************************************************************************)
(* The layout specification: one insertText call on a constructed document *)
(* with its text and options drawn from the layout inputs.                 *)
(***************************************************************************)
InitText ==
    /\ fonts = registerFonts(<<>>, <<FontInput("A", 1)>>, 4)
    /\ buffer = InitialBuffer
    /\ pages = <<LineWidthOp \o "\n">>
    /\ currentPage = 0
    /\ objectCount = 4
    /\ globalYTrakerH = 2 * (2 * marginHorizontal)
    /\ offsets = <<>>
    /\ buildPc = "idle"
    /\ buildFont = 0
    /\ builds = 0
    /\ insertPageCalls = 0
    /\ pagesAtBuild = 0
    /\ pdf = ""
    /\ \E t \in Strings(MaxLen), o \in LayoutOptions : calls = <<Called(t, o)>>
    /\ ops = 1
    /\ image = NoImage

NextText == TextResume \/ FetchFail \/ InsertTextWrite

SpecText == InitText /\ [][NextText]_vars

(***************************************************************************)
(* The operand specification: one insertText call without options whose    *)
(* text is drawn from strings holding the delimiters of a PDF string.      *)
(***************************************************************************)
Delimiters == {"a", "(", ")", "\\"}

RECURSIVE DelimiterStrings(_)
DelimiterStrings(n) ==
    IF n = 0 THEN {""}
    ELSE DelimiterStrings(n - 1)
            \cup {t \o c : t \in {u \in DelimiterStrings(n - 1) : Len(u) = n - 1},
                           c \in Delimiters}

InitOperand ==
    /\ fonts = registerFonts(<<>>, <<FontInput("A", 1)>>, 4)
    /\ buffer = InitialBuffer
    /\ pages = <<LineWidthOp \o "\n">>
    /\ currentPage = 0
    /\ objectCount = 4
    /\ globalYTrakerH = 2 * (2 * marginHorizontal)
    /\ offsets = <<>>
    /\ buildPc = "idle"
    /\ buildFont = 0
    /\ builds = 0
    /\ insertPageCalls = 0
    /\ pagesAtBuild = 0
    /\ pdf = ""
    /\ \E t \in DelimiterStrings(MaxLen) : calls = <<Called(t, NoOptions)>>
    /\ ops = 1
    /\ image = NoImage

SpecOperand == InitOperand /\ [][NextText]_vars

(***************************************************************************)
(* The unawaited specification: the caller makes its calls without         *)
(* awaiting the promises of insertText and build, so a call runs while     *)
(* earlier ones are suspended at their awaits.  Two fonts are registered.  *)
(***************************************************************************)
InitAsync ==
    /\ fonts = registerFonts(<<>>, <<FontInput("A", 1), FontInput("7", 2)>>, 4)
    /\ buffer = InitialBuffer
    /\ pages = <<LineWidthOp \o "\n">>
    /\ currentPage = 0
    /\ objectCount = 4
    /\ globalYTrakerH = 2 * (2 * marginHorizontal)
    /\ offsets = <<>>
    /\ buildPc = "idle"
    /\ buildFont = 0
    /\ builds = 0
    /\ insertPageCalls = 0
    /\ pagesAtBuild = 0
    /\ pdf = ""
    /\ calls = <<>>
    /\ ops = 0
    /\ image = NoImage

\* insertPage() is called, whatever is suspended
InsertPageNow ==
    /\ ops < MaxAsyncOps
    /\ ops' = ops + 1
    /\ insertPageCalls' = insertPageCalls + 1
    /\ currentPage' = currentPage + 1
    /\ pages' = writeOnPage(Append(pages, ""), currentPage + 1, LineWidthOp)
    /\ UNCHANGED <<image, buffer, objectCount, globalYTrakerH, fonts, offsets, buildPc,
                   buildFont, builds, pagesAtBuild, pdf, calls>>

\* insertText(t, o) is called, whatever is suspended
InsertTextNow ==
    /\ ops < MaxAsyncOps
    /\ ops' = ops + 1
    /\ \E t \in DocTexts, o \in DocOptions : calls' = Append(calls, Called(t, o))
    /\ UNCHANGED <<image, buffer, pages, currentPage, objectCount, globalYTrakerH, fonts,
                   offsets, buildPc, buildFont, builds, pagesAtBuild, pdf,
                   insertPageCalls>>

\* build() is called once, whatever insertText is suspended: it runs up to
\* the await of the first putFont
BuildNow ==
    /\ builds = 0
    /\ ops < MaxAsyncOps
    /\ ops' = ops + 1
    /\ builds' = builds + 1
    /\ pagesAtBuild' = insertPageCalls
    /\ SetDoc(BuildHead(Doc, pages))
    /\ buildPc' = "font"
    /\ buildFont' = 1
    /\ UNCHANGED <<image, pages, currentPage, globalYTrakerH, insertPageCalls, calls, pdf>>

NextAsync ==
    \/ InsertPageNow
    \/ InsertTextNow
    \/ BuildNow
    \/ TextResume
    \/ InsertTextWrite
    \/ PutFont
    \/ BuildNextFont
    \/ BuildFinish

SpecAsync == InitAsync /\ [][NextAsync]_vars

(***************************************************************************)
(* The image specification: the exported image functions applied to a byte *)
(* array drawn from the image inputs.                                      *)
(***************************************************************************)
InitImage ==
    /\ fonts = registerFonts(<<>>, <<FontInput("A", 1)>>, 4)
    /\ buffer = InitialBuffer
    /\ pages = <<LineWidthOp \o "\n">>
    /\ currentPage = 0
    /\ objectCount = 4
    /\ globalYTrakerH = 2 * (2 * marginHorizontal)
    /\ offsets = <<>>
    /\ buildPc = "idle"
    /\ buildFont = 0
    /\ builds = 0
    /\ insertPageCalls = 0
    /\ pagesAtBuild = 0
    /\ pdf = ""
    /\ calls = <<>>
    /\ ops = 0
    /\ \E bytes \in ImageInputs :
           image = [NoImage EXCEPT !.encodedImage = bytes]

docVars == <<buffer, pages, currentPage, objectCount, globalYTrakerH, fonts, offsets,
             buildPc, buildFont, builds, insertPageCalls, pagesAtBuild, pdf, calls, ops>>

\* getImageType(encodedImage) is called
GetImageType ==
    /\ image.imageType = <<>>
    /\ image' = [image EXCEPT !.imageType = <<getImageType(image.encodedImage)>>]
    /\ UNCHANGED docVars

\* getImageDimensions(encodedImage) is called
GetImageDimensions ==
    /\ image.dimensions = <<>>
    /\ image' = [image EXCEPT !.dimensions = <<getImageDimensions(image.encodedImage)>>]
    /\ UNCHANGED docVars

NextImage == GetImageType \/ GetImageDimensions

SpecImage == InitImage /\ [][NextImage]_vars

(***************************************************************************)
(* The scan specification: getJpegDimensions applied to a byte array drawn *)
(* from the image inputs, one iteration of its loop at a time.  A loop     *)
(* that is running runs on.                                                *)
(***************************************************************************)
\* marker === 0xc0 || marker === 0xc2 for the segment at offset
FrameMarker(uint8Array, offset) ==
    Is(uint8Array, offset + 1, 192) \/ Is(uint8Array, offset + 1, 194)

\* mutant: the two bytes of the marker are not stepped over
NextOffset_noMarker(uint8Array, offset) ==
    offset + Bits(uint8Array, offset + 2) * 2^8 + Bits(uint8Array, offset + 3) - 2

\* offset + 2 + (uint8Array[offset + 2] << 8) + uint8Array[offset + 3], where
\* both bytes exist
NextOffset(uint8Array, offset) ==
    offset + 2 + Bits(uint8Array, offset + 2) * 2^8 + Bits(uint8Array, offset + 3)

\* getJpegDimensions(encodedImage) is called and reaches the test of its loop
JpegCall ==
    /\ image.pc = "none"
    /\ image' = IF ~ (Is(image.encodedImage, 0, 255) /\ Is(image.encodedImage, 1, 216))
                THEN [image EXCEPT !.pc = "done",
                                   !.jpeg = <<Thrown("Not a valid JPEG file")>>]
                ELSE [image EXCEPT !.pc = "loop", !.offset = 2]
    /\ UNCHANGED docVars

\* the test of the loop and, where it holds, one iteration
JpegIteration ==
    /\ image.pc = "loop"
    /\ LET bytes == image.encodedImage
           offset == image.offset
           failed == [image EXCEPT
                         !.pc = "done",
                         !.jpeg = <<Thrown("Coudn't calculate the dimensions of the Image.")>>]
       IN  image' =
             IF image.nan \/ ~ (offset < Len(bytes)) THEN failed
             ELSE IF ~ Is(bytes, offset, 255) THEN failed
             ELSE IF FrameMarker(bytes, offset)
             THEN [image EXCEPT
                      !.pc = "done",
                      !.jpeg = <<Returned("jpeg",
                                          Bits(bytes, offset + 7) * 2^8
                                              + Bits(bytes, offset + 8),
                                          Bits(bytes, offset + 5) * 2^8
                                              + Bits(bytes, offset + 6))>>]
             \* a number plus undefined is NaN
             ELSE IF ~ Has(bytes, offset + 3)
             THEN [image EXCEPT !.nan = TRUE, !.visited = @ \cup {offset}]
             ELSE [image EXCEPT !.offset = NextOffset(bytes, offset),
                                !.visited = @ \cup {offset}]
    /\ UNCHANGED docVars

NextJpeg == JpegCall \/ JpegIteration

SpecJpeg == InitImage /\ [][NextJpeg]_vars /\ WF_vars(JpegIteration)

(***************************************************************************)
(* Reading a document back, as a consumer of the format does.              *)
(***************************************************************************)
Max(S) == CHOOSE x \in S : \A y \in S : x >= y

\* the 0-based indices at which pat occurs in s
Occurrences(s, pat) ==
    {i \in 0..(Len(s) - Len(pat)) : SubSeq(s, i + 1, i + Len(pat)) = pat}

\* the text of the line of s that starts at 0-based index at
LineAt(s, at) ==
    LET ends == {i \in at..(Len(s) - 1) : SubSeq(s, i + 1, i + 1) = "\n"}
    IN  IF ends = {} THEN SubSeq(s, at + 1, Len(s)) ELSE SubSeq(s, at + 1, Min(ends))

\* the digits that end just before 0-based index e and start a line, or ""
NumberBefore(s, e) ==
    LET ds == {d \in 1..4 : /\ e - d >= 0
                            /\ AllDigits(SubSeq(s, e - d + 1, e))
                            /\ (e - d = 0 \/ SubSeq(s, e - d, e - d) = "\n")}
    IN  IF ds = {} THEN "" ELSE SubSeq(s, e - Min(ds) + 1, e)

\* the object headers of s: for each line "<n> 0 obj", its 0-based index, its
\* number and the line that follows it (the dictionary of the object)
Headers(s) ==
    {[pos |-> e - Len(NumberBefore(s, e)),
      n |-> ParseDec(NumberBefore(s, e)),
      dict |-> LineAt(s, e + 7)] :
        e \in {x \in Occurrences(s, " 0 obj\n") : NumberBefore(s, x) # ""}}

\* the 0-based index at which the last cross-reference table of s begins
XrefPos(s) == Max(Occurrences(s, "\nxref\n")) + 1

\* the number of entries the subsection header "0 <count>" announces
XrefCount(s) == ParseDec(SubSeq(LineAt(s, XrefPos(s) + 5), 3, Len(LineAt(s, XrefPos(s) + 5))))

\* the 20-byte entry of object n in the last cross-reference table of s
XrefEntry(s, n) ==
    LET first == XrefPos(s) + 5 + Len(LineAt(s, XrefPos(s) + 5)) + 1
    IN  SubSeq(s, first + 20 * n + 1, first + 20 * n + 20)

\* the offset the cross-reference table of s gives for object n
XrefOffset(s, n) == ParseDec(SubSeq(XrefEntry(s, n), 1, 10))

\* the number written after the last "startxref" of s
StartXref(s) == ParseDec(LineAt(s, Max(Occurrences(s, "\nstartxref\n")) + 11))

\* build() has returned, and it was the first build() of the instance
FirstBuildReturned == builds = 1 /\ buildPc = "idle" /\ pdf # ""

\* the step in which the first build() of the instance returns its document
FirstBuildReturns == builds' = 1 /\ pdf' # pdf

\* a step of the first build() of the instance that appends to the buffer
FirstBuildWrites == builds' = 1 /\ buffer' # buffer

(***************************************************************************)
(* C1.  After build() returns, for every object number n from 1 to the     *)
(* final object count, the returned document begins, at the offset its     *)
(* cross-reference table gives for n, with the header "n 0 obj".           *)
(***************************************************************************)
C1_OffsetsPointAtHeaders ==
    FirstBuildReturned =>
        \A n \in 1..(XrefCount(pdf) - 1) :
            StartsWithAt(pdf, XrefOffset(pdf, n), Str(n) \o " 0 obj")

(***************************************************************************)
(* C2.  For every object begun by createObject during build() (pages,      *)
(* contents, the three objects of each font), the offset the offset table  *)
(* holds is the length the buffer had just before the object's header was  *)
(* appended, that is the index of the header while the buffer only grows.  *)
(***************************************************************************)
C2_OffsetIsLengthBeforeHeader ==
    (builds = 1 /\ buildPc \in {"font", "fontDone"}) =>
        \A h \in Headers(buffer) : h.n >= 5 => offsets[h.n] = h.pos

(***************************************************************************)
(* C3.  In the document build() returns, the number after "startxref" is   *)
(* the index at which the "xref" keyword begins.                           *)
(***************************************************************************)
C3_StartXrefPointsAtXref == FirstBuildReturned => StartXref(pdf) = XrefPos(pdf)

(***************************************************************************)
(* C4.  During one build() on a fresh document the object headers are      *)
(* appended in the order 1, 2, ..., N, none skipped and none twice; 1..4   *)
(* are the catalog, the info, the page-tree root and the resources.        *)
(***************************************************************************)
HeadersInOrder(s, N) ==
    LET hs == Headers(s)
    IN  /\ Cardinality(hs) = N
        /\ {h.n : h \in hs} = 1..N
        /\ \A g, h \in hs : g.pos < h.pos <=> g.n < h.n
        /\ \A h \in hs :
              /\ h.n = 1 => EndsWith(h.dict, "/Type/Catalog>>")
              /\ h.n = 2 => StartsWithAt(h.dict, 0, "<</CreationDate")
              /\ h.n = 3 => EndsWith(h.dict, "/Type/Pages>>")
              /\ h.n = 4 => StartsWithAt(h.dict, 0, "<</Font<<")

C4_HeadersInOrder == [][FirstBuildWrites => HeadersInOrder(buffer', objectCount')]_vars

\* a first build of a document with two pages and a font has returned
C4_Witness ==
    /\ FirstBuildReturned
    /\ Len(fonts) >= 1
    /\ pagesAtBuild >= 1
    /\ objectCount >= 11
    /\ HeadersInOrder(buffer, objectCount)

\* the header that follows h in s, by position (h is not the last)
NextHeader(hs, h) ==
    CHOOSE g \in hs : g.pos > h.pos /\ \A x \in hs : x.pos > h.pos => g.pos <= x.pos

HasNext(hs, h) == \E g \in hs : g.pos > h.pos

\* the header numbered n (numbers are unique in s)
Obj(hs, n) == CHOOSE h \in hs : h.n = n

IsPageObj(h) == EndsWith(h.dict, "/Type/Page>>")

IsStreamObj(h) == StartsWithAt(h.dict, 0, "<</Filter/FlateDecode/Length ")

Contains(s, pat) == Occurrences(s, pat) # {}

\* "<n> 0 R " for each header of hs, in the order of their positions
RECURSIVE RefsByPos(_)
RefsByPos(hs) ==
    IF hs = {} THEN ""
    ELSE LET h == CHOOSE g \in hs : \A x \in hs : g.pos <= x.pos
         IN  Str(h.n) \o " 0 R " \o RefsByPos(hs \ {h})

(***************************************************************************)
(* C5.  After k explicit insertPage calls, interleaved with awaited        *)
(* insertText calls, build() emits exactly k + 1 Page objects, the page    *)
(* tree's /Count is k + 1, and each Page object has an entry in the        *)
(* cross-reference table.                                                  *)
(***************************************************************************)
PageObjects(s, k) ==
    LET hs == Headers(s)
        pageObjs == {h \in hs : IsPageObj(h)}
    IN  /\ Cardinality(pageObjs) = k + 1
        /\ StartsWithAt(Obj(hs, 3).dict, 0, "<</Count " \o Str(k + 1) \o "/Kids")
        /\ \A h \in pageObjs :
              /\ h.n < XrefCount(s)
              /\ AllDigits(SubSeq(XrefEntry(s, h.n), 1, 10))
              /\ SubSeq(XrefEntry(s, h.n), 11, 20) = " 00000 n \n"

C5_PageObjects == [][FirstBuildReturns => PageObjects(pdf', insertPageCalls)]_vars

\* two explicit insertPage calls and a written insertText came before the build
C5_Witness ==
    /\ FirstBuildReturned
    /\ pagesAtBuild = 2
    /\ PageObjects(pdf, 2)
    /\ \E k \in 1..Len(calls) : calls[k].stage = "written"

(***************************************************************************)
(* C6.  On a fresh document the i-th entry of /Kids is the number that     *)
(* createObject assigned to the i-th Page object, and the /Contents of     *)
(* every Page object is the number of the stream object emitted right      *)
(* after it.                                                               *)
(***************************************************************************)
KidsAndContents(s) ==
    LET hs == Headers(s)
        pageObjs == {h \in hs : IsPageObj(h)}
    IN  /\ Contains(Obj(hs, 3).dict, "/Kids [ " \o RefsByPos(pageObjs) \o "]")
        /\ \A h \in pageObjs :
              /\ HasNext(hs, h)
              /\ IsStreamObj(NextHeader(hs, h))
              /\ StartsWithAt(h.dict, 0,
                     "<</Contents " \o Str(NextHeader(hs, h).n) \o " 0 R ")

C6_KidsAndContents == [][FirstBuildReturns => KidsAndContents(pdf')]_vars

\* a first build of a document of two pages or more has returned
C6_Witness ==
    FirstBuildReturned /\ pagesAtBuild >= 1 /\ Len(fonts) = 1 /\ KidsAndContents(pdf)

(***************************************************************************)
(* C7.  After build() the resource dictionary (object 4) holds no          *)
(* placeholder and, for every registered font, exactly one entry           *)
(* "/<id> <n> 0 R" with n the number of the Font object putFont emitted    *)
(* for it in this build; the Font object refers to the FontDescriptor      *)
(* emitted next, and that to the FontFile stream emitted after it.         *)
(***************************************************************************)
FontObj(hs, name) ==
    CHOOSE h \in hs : StartsWithAt(h.dict, 0, "<</BaseFont/" \o name \o "/Encoding")

RECURSIVE FontEntries(_, _, _)
FontEntries(hs, fs, k) ==
    IF k > Len(fs) THEN ""
    ELSE "/" \o fs[k].id \o " " \o Str(FontObj(hs, fs[k].name).n) \o " 0 R "
            \o FontEntries(hs, fs, k + 1)

FontResources(s, fs) ==
    LET hs == Headers(s)
    IN  /\ ~Contains(s, Placeholder)
        /\ \A k \in 1..Len(fs) :
              Cardinality({h \in hs : StartsWithAt(h.dict, 0,
                              "<</BaseFont/" \o fs[k].name \o "/Encoding")}) = 1
        /\ Obj(hs, 4).dict =
              "<</Font<<" \o trim(FontEntries(hs, fs, 1))
                  \o ">>/ProcSet[/PDF/Text/ImageB/ImageC/ImageI]/XObject<<>>>>"
        /\ \A k \in 1..Len(fs) :
              LET f == FontObj(hs, fs[k].name)
                  d == NextHeader(hs, f)
                  file == NextHeader(hs, d)
              IN  /\ f.n >= 5
                  /\ EndsWith(d.dict, "/Type/FontDescriptor>>")
                  /\ Contains(f.dict, "/FontDescriptor " \o Str(d.n) \o " 0 R ")
                  /\ IsStreamObj(file)
                  /\ Contains(d.dict, "/FontFile2 " \o Str(file.n) \o " 0 R ")

C7_FontResources == [][FirstBuildReturns => FontResources(pdf', fonts')]_vars

\* a first build with two registered fonts has returned
C7_Witness == FirstBuildReturned /\ Len(fonts) = 2 /\ FontResources(pdf, fonts)

(***************************************************************************)
(* C8.  The file build() returns holds, in this order: catalog, info       *)
(* dictionary, page tree, resource dictionary; for each page in insertion  *)
(* order its Page object immediately followed by its Contents stream; for  *)
(* each font in registration order Font, FontDescriptor, FontFile; the     *)
(* cross-reference table; the trailer.  No font object precedes a page     *)
(* object and nothing follows the trailer.                                 *)
(***************************************************************************)
\* the bytes of the stream object h of s, between "stream\n" and "\nendstream"
StreamStart(h) == h.pos + Len(Str(h.n)) + Len(" 0 obj\n") + Len(h.dict) + Len("\nstream\n")

\* the entry of the k-th distinct font name registered
Registered(fs, k) == fs[CHOOSE i \in 1..Len(fs) : fs[i].seq = k]

EmissionOrder(s, ps, fs) ==
    LET hs == Headers(s)
        P == Len(ps)
        F == Len(fs)
        fontBase == 4 + 2 * P
    IN  /\ {h.n : h \in hs} = 1..(fontBase + 3 * F)
        /\ Cardinality(hs) = fontBase + 3 * F
        /\ \A g, h \in hs : g.pos < h.pos <=> g.n < h.n
        /\ EndsWith(Obj(hs, 1).dict, "/Type/Catalog>>")
        /\ StartsWithAt(Obj(hs, 2).dict, 0, "<</CreationDate")
        /\ EndsWith(Obj(hs, 3).dict, "/Type/Pages>>")
        /\ StartsWithAt(Obj(hs, 4).dict, 0, "<</Font<<")
        /\ \A i \in 1..P :
              /\ IsPageObj(Obj(hs, 3 + 2 * i))
              /\ IsStreamObj(Obj(hs, 4 + 2 * i))
              /\ StartsWithAt(s, StreamStart(Obj(hs, 4 + 2 * i)),
                              trim(deflate(ps[i])) \o "\nendstream\n")
        /\ \A k \in 1..F :
              /\ StartsWithAt(Obj(hs, fontBase + 3 * k - 2).dict, 0,
                              "<</BaseFont/" \o Registered(fs, k).name \o "/Encoding")
              /\ EndsWith(Obj(hs, fontBase + 3 * k - 1).dict, "/Type/FontDescriptor>>")
              /\ IsStreamObj(Obj(hs, fontBase + 3 * k))
        /\ Cardinality(Occurrences(s, "\nxref\n")) = 1
        /\ Cardinality(Occurrences(s, "\ntrailer\n")) = 1
        /\ \A h \in hs : h.pos < XrefPos(s)
        /\ \A t \in Occurrences(s, "\ntrailer\n") : XrefPos(s) < t
        /\ \A e \in Occurrences(s, "%%EOF\n") : e + Len("%%EOF\n") = Len(s)
        /\ EndsWith(s, "\n%%EOF\n")

C8_EmissionOrder ==
    [][FirstBuildReturns => EmissionOrder(pdf', pages, fonts')]_vars

(***************************************************************************)
(* C9.  Every line the wrapping loop of text() produces that holds two or  *)
(* more characters has the sum of its per-character advance widths, plus   *)
(* coordinates.x, plus paddingFromSecondLine if it is a continuation line, *)
(* strictly below the viewbox width; only a line of a single character may *)
(* reach or exceed it.                                                     *)
(***************************************************************************)
\* the sum of calculateTextWidth over the characters of line, each alone
RECURSIVE CharWidthsH(_, _)
CharWidthsH(line, fontSize) ==
    IF line = "" THEN 0
    ELSE calculateTextWidthH(SubSeq(line, 1, 1), fontSize)
            + CharWidthsH(SubSeq(line, 2, Len(line)), fontSize)

\* accumulated width plus offsets of line i (1-based) of a call, in half units
LineExtentH(c, i) ==
    CharWidthsH(c.res[1].lines[i], Opt(c.o, "fontSize", 13))
        + 2 * Opt(c.o, "coordinates", [x |-> 0, y |-> 0]).x
        + (IF i > 1 THEN 2 * Opt(c.o, "paddingFromSecondLine", 0) ELSE 0)

C9_WrappedLinesFit ==
    \A k \in 1..Len(calls) :
        calls[k].res # <<>> =>
            \A i \in 1..Len(calls[k].res[1].lines) :
                Len(calls[k].res[1].lines[i]) >= 2 =>
                    LineExtentH(calls[k], i) < 2 * ViewBoxOf(calls[k].o).width

\* a padded continuation line of two characters was produced next to a line
\* of one character that alone reaches the viewbox width
C9_Witness ==
    \E k \in 1..Len(calls) :
        /\ calls[k].res # <<>>
        /\ Opt(calls[k].o, "paddingFromSecondLine", 0) > 0
        /\ \E i, j \in 1..Len(calls[k].res[1].lines) :
              /\ i > 1
              /\ Len(calls[k].res[1].lines[i]) >= 2
              /\ Len(calls[k].res[1].lines[j]) = 1
              /\ LineExtentH(calls[k], j) >= 2 * ViewBoxOf(calls[k].o).width

(***************************************************************************)
(* C10.  Calling insertText twice on the same document with the same text, *)
(* the same viewbox and the same font appends byte-identical operator      *)
(* output both times.  As stated, the default page viewbox included:       *)
(***************************************************************************)
SameInputs(c, d) == c.text = d.text /\ c.o = d.o /\ c.font = d.font

C10_IdempotentAnyViewBox ==
    \A j, k \in 1..Len(calls) :
        (calls[j].stage = "written" /\ calls[k].stage = "written"
            /\ SameInputs(calls[j], calls[k]))
        => calls[j].res[1].buffer = calls[k].res[1].buffer

(***************************************************************************)
(* C10, amended.  Two insertText calls with the same text, the same        *)
(* explicit viewbox and the same font append byte-identical operator       *)
(* output, whatever was drawn in between.                                  *)
(***************************************************************************)
C10_IdempotentExplicitViewBox ==
    \A j, k \in 1..Len(calls) :
        (calls[j].stage = "written" /\ calls[k].stage = "written"
            /\ SameInputs(calls[j], calls[k]) /\ ~IsViewBoxPage(calls[j].o))
        => calls[j].res[1].buffer = calls[k].res[1].buffer

\* two written calls with the same explicit viewbox, and between them a call
\* on the page viewbox that moved the cursor of the document
C10_Witness ==
    \E i, j, k \in 1..Len(calls) :
        /\ i < j /\ j < k
        /\ calls[i].stage = "written" /\ calls[j].stage = "written"
        /\ calls[k].stage = "written"
        /\ SameInputs(calls[i], calls[k])
        /\ ~IsViewBoxPage(calls[i].o)
        /\ IsViewBoxPage(calls[j].o)
        /\ globalYTrakerH # 2 * (2 * marginHorizontal)

(***************************************************************************)
(* C11.  The height text() returns is (final vertical cursor - cursor at   *)
(* the start of the call) + lineHeight / 2, lineHeight being               *)
(* floor(fontSize / 0.75), for the page viewbox (the cursor starts at the  *)
(* global tracker) and for an explicit viewbox (it starts at               *)
(* viewBox.coordinates.y); the final cursor is the start plus lineHeight   *)
(* times the number of non-empty lines.  As stated, for both viewboxes:    *)
(***************************************************************************)
NonEmpty(lines) == Cardinality({i \in 1..Len(lines) : Len(lines[i]) # 0})

\* the cursor at the start of call c, in half units
StartCursorH(c) ==
    IF IsViewBoxPage(c.o) THEN c.g ELSE 2 * ViewBoxOf(c.o).coordinates.y

\* the cursor after the last line of call c, in half units
FinalCursorH(c) ==
    StartCursorH(c) + 2 * ((4 * Opt(c.o, "fontSize", 13)) \div 3) * NonEmpty(c.res[1].lines)

\* lineHeight / 2, in half units
HalfLineH(c) == (4 * Opt(c.o, "fontSize", 13)) \div 3

C11_HeightIsConsumed ==
    \A k \in 1..Len(calls) :
        calls[k].res # <<>> =>
            calls[k].res[1].heightH
                = FinalCursorH(calls[k]) - StartCursorH(calls[k]) + HalfLineH(calls[k])

(***************************************************************************)
(* C11, amended.  The height text() returns is the final vertical cursor   *)
(* minus viewBox.coordinates.y plus lineHeight / 2, the final cursor being *)
(* the start plus lineHeight times the number of non-empty lines.  For an  *)
(* explicit viewbox that is the consumed height; for the page viewbox,     *)
(* whose coordinates.y is 0, it is the final cursor plus half a line, the  *)
(* value insertText stores as the new global tracker.                      *)
(***************************************************************************)
C11_HeightFromViewBoxTop ==
    \A k \in 1..Len(calls) :
        calls[k].res # <<>> =>
            /\ calls[k].res[1].heightH
                  = FinalCursorH(calls[k]) - 2 * ViewBoxOf(calls[k].o).coordinates.y
                        + HalfLineH(calls[k])
            /\ ~IsViewBoxPage(calls[k].o) =>
                  calls[k].res[1].heightH
                      = FinalCursorH(calls[k]) - StartCursorH(calls[k]) + HalfLineH(calls[k])
            /\ (calls[k].stage = "written" /\ IsViewBoxPage(calls[k].o)) =>
                  globalYTrakerH = FinalCursorH(calls[k]) + HalfLineH(calls[k])

\* a call on the page viewbox whose first line is empty, started at a cursor
\* other than 0, has been laid out and written
C11_Witness ==
    \E k \in 1..Len(calls) :
        /\ calls[k].stage = "written"
        /\ IsViewBoxPage(calls[k].o)
        /\ Len(calls[k].res[1].lines) >= 2
        /\ calls[k].res[1].lines[1] = ""
        /\ StartCursorH(calls[k]) > 0

(***************************************************************************)
(* C12.  When insertText is called without a font option on a document     *)
(* with at least one registered font, the font directive it emits names    *)
(* the resource id of the first font in registration order, whatever other *)
(* fonts are registered and whatever was drawn before.                     *)
(***************************************************************************)
\* the font directive text() writes for resource id and the options o
FontDirective(id, o) ==
    "\nBT\n/" \o id \o " " \o Str(Opt(o, "fontSize", 13) * scaleFactor) \o " Tf ET\n"

C12_DefaultFontIsFirstRegistered ==
    \A k \in 1..Len(calls) :
        (calls[k].stage = "written" /\ "font" \notin DOMAIN calls[k].o) =>
            Contains(calls[k].res[1].buffer,
                     FontDirective(Registered(fonts, 1).id, calls[k].o))

(***************************************************************************)
(* C13.  Constructing a document with an empty font list fails at          *)
(* construction time, before any layout call is made: no PaperBit instance *)
(* with an empty font registry is ever reachable.                          *)
(***************************************************************************)
C13_NoEmptyRegistry == Len(fonts) >= 1

(***************************************************************************)
(* C14.  When the font list passed to the constructor holds the same name  *)
(* more than once, the later registration is rejected or ignored: the      *)
(* entry of that name keeps the resource id, url and style of the first    *)
(* registration.  The k-th distinct name was first registered with the id  *)
(* "F<k>"; the first name of the list with the url and style of the first  *)
(* element of the list.                                                    *)
(***************************************************************************)
C14_FirstRegistrationKept ==
    \A i \in 1..Len(fonts) :
        /\ fonts[i].id = "F" \o Str(fonts[i].seq)
        /\ fonts[i].seq = 1 =>
              /\ fonts[i].url = FontInput(fonts[i].name, 1).url
              /\ fonts[i].style = FontInput(fonts[i].name, 1).style

(***************************************************************************)
(* C15.  Drawing calls never overlap: if insertText B is invoked before    *)
(* the promise of an earlier insertText A on the page viewbox has          *)
(* resolved, then once both have resolved the page buffer holds A's        *)
(* operators before B's, and B's line positions and the final global       *)
(* tracker are those of running A to completion and then B.                *)
(***************************************************************************)
\* the page buffer and the tracker after the calls cs from the k-th on have
\* run one after the other, each to completion, on buffer page and tracker gH
RECURSIVE OneAfterTheOther(_, _, _, _)
OneAfterTheOther(cs, k, page, gH) ==
    IF k > Len(cs) THEN [page |-> page, gH |-> gH]
    ELSE LET res == text(cs[k].text, cs[k].o, cs[k].font[1], cs[k].color, gH)
         IN  OneAfterTheOther(cs, k + 1, page \o res.buffer \o "\n",
                              NextTrackerH(res, gH))

C15_CallsDoNotOverlap ==
    (/\ insertPageCalls = 0
     /\ Len(calls) >= 2
     /\ \A k \in 1..Len(calls) : calls[k].stage = "written")
    => LET seq == OneAfterTheOther(calls, 1, LineWidthOp \o "\n",
                                   2 * (2 * marginHorizontal))
       IN  pages[1] = seq.page /\ globalYTrakerH = seq.gH

(***************************************************************************)
(* C16.  build() is a single pass with no concurrent mutation of the       *)
(* document: between the invocation of build() and the resolution of its   *)
(* promise no insertPage or insertText step can change a page buffer, the  *)
(* current page index or the vertical tracker (the object counter and the  *)
(* offset table are written by build() alone).                             *)
(***************************************************************************)
C16_NoMutationDuringBuild ==
    [][(buildPc # "idle" /\ buildPc' # "idle")
          => UNCHANGED <<pages, currentPage, globalYTrakerH>>]_vars

(***************************************************************************)
(* C17.  For every text whose accumulated character width plus             *)
(* coordinates.x stays strictly below the viewbox width, text() produces   *)
(* exactly one text-placement operator (no wrap), preceded by exactly one  *)
(* font directive naming the resource id of the selected font; in general  *)
(* the number of text-placement operators is the number of non-empty       *)
(* lines.  As stated, for every text:                                      *)
(***************************************************************************)
\* the 0-based indices at which a text-placement operator of buf ends
Placements(buf) == Occurrences(buf, ") Tj ET\n")

\* the accumulated character width of the text of call c plus coordinates.x
\* stays strictly below the viewbox width
FitsOneLine(c) ==
    CharWidthsH(c.text, Opt(c.o, "fontSize", 13))
        + 2 * Opt(c.o, "coordinates", [x |-> 0, y |-> 0]).x
      < 2 * ViewBoxOf(c.o).width

\* buf holds one font directive, that of id, and it precedes every placement
OneDirectiveFirst(buf, id, o) ==
    /\ Cardinality(Occurrences(buf, " Tf ET\n")) = 1
    /\ Contains(buf, FontDirective(id, o))
    /\ \A p \in Placements(buf) : IndexOf(buf, FontDirective(id, o)) < p

C17_OnePlacementWhenFitting ==
    \A k \in 1..Len(calls) :
        (calls[k].res # <<>> /\ FitsOneLine(calls[k])) =>
            /\ Cardinality(Placements(calls[k].res[1].buffer)) = 1
            /\ OneDirectiveFirst(calls[k].res[1].buffer, calls[k].font[1].id, calls[k].o)

(***************************************************************************)
(* C17, amended.  For every non-empty text that fits so, text() produces   *)
(* exactly one text-placement operator, preceded by exactly one font       *)
(* directive naming the resource id of the selected font.  For every text  *)
(* the number of text-placement operators is the number of non-empty       *)
(* lines, and there is exactly one font directive: the empty text yields   *)
(* no line and no text-placement operator.                                 *)
(***************************************************************************)
C17_PlacementsAreNonEmptyLines ==
    \A k \in 1..Len(calls) :
        calls[k].res # <<>> =>
            /\ Cardinality(Placements(calls[k].res[1].buffer))
                  = NonEmpty(calls[k].res[1].lines)
            /\ OneDirectiveFirst(calls[k].res[1].buffer, calls[k].font[1].id, calls[k].o)
            /\ (FitsOneLine(calls[k]) /\ calls[k].text # "") =>
                  /\ calls[k].res[1].lines = <<calls[k].text>>
                  /\ Cardinality(Placements(calls[k].res[1].buffer)) = 1
            /\ calls[k].text = "" => Placements(calls[k].res[1].buffer) = {}

\* a text of several characters that fits has been laid out on one line
C17_Witness ==
    \E k \in 1..Len(calls) :
        /\ calls[k].res # <<>>
        /\ Len(calls[k].text) >= 3
        /\ FitsOneLine(calls[k])
        /\ Cardinality(Placements(calls[k].res[1].buffer)) = 1

(***************************************************************************)
(* C18.  The document is consumed at finalization: after build() has       *)
(* completed once, a further build() on the same instance appends nothing  *)
(* to the buffer and changes neither the object counter nor the offset     *)
(* table.                                                                  *)
(***************************************************************************)
C18_ConsumedAtBuild ==
    [][(builds >= 1 /\ buildPc = "idle")
          => UNCHANGED <<buffer, objectCount, offsets>>]_vars

(***************************************************************************)
(* C19.  Image bytes are classified by their leading signature:            *)
(* getImageType returns "png" only when the first four bytes are           *)
(* 89 50 4E 47, returns "jpeg" only when the first two bytes are FF D8,    *)
(* and fails for every other input; when getImageType and                  *)
(* getImageDimensions both succeed on an input they agree on its format.   *)
(***************************************************************************)
PngSignature(uint8Array) ==
    /\ Is(uint8Array, 0, 137)
    /\ Is(uint8Array, 1, 80)
    /\ Is(uint8Array, 2, 78)
    /\ Is(uint8Array, 3, 71)

JpegSignature(uint8Array) == Is(uint8Array, 0, 255) /\ Is(uint8Array, 1, 216)

C19_ClassifiedBySignature ==
    LET bytes == image.encodedImage
    IN  /\ image.imageType # <<>> =>
              LET type == image.imageType[1]
              IN  /\ (type.ok /\ type.format = "png") => PngSignature(bytes)
                  /\ (type.ok /\ type.format = "jpeg") => JpegSignature(bytes)
                  /\ (~ PngSignature(bytes) /\ ~ JpegSignature(bytes)) => ~ type.ok
        /\ (image.imageType # <<>> /\ image.dimensions # <<>>) =>
              ((image.imageType[1].ok /\ image.dimensions[1].ok)
                  => image.imageType[1].format = image.dimensions[1].format)

(***************************************************************************)
(* C20.  For a PNG input of at least 24 bytes, getImageDimensions returns  *)
(* as width and height the unsigned big-endian 32-bit integers stored at   *)
(* byte offsets 16..19 and 20..23, whatever their value in 0 .. 2^32 - 1.  *)
(***************************************************************************)
\* v is the unsigned integer whose big-endian bytes are word
IsUnsignedBE(v, word) ==
    /\ v >= 0
    /\ word = <<v \div 2^24, (v \div 2^16) % 256, (v \div 2^8) % 256, v % 256>>

C20_PngDimensionsExact ==
    LET bytes == image.encodedImage
    IN  (image.dimensions # <<>> /\ PngSignature(bytes) /\ Len(bytes) >= 24) =>
            LET size == image.dimensions[1]
            IN  /\ size.ok
                /\ IsUnsignedBE(size.width, SubSeq(bytes, 17, 20))
                /\ IsUnsignedBE(size.height, SubSeq(bytes, 21, 24))

(***************************************************************************)
(* C21.  A truncated JPEG header is surfaced as a failure: when the first  *)
(* frame marker (C0 or C2) is found but one of the four dimension bytes at *)
(* marker offset +5..+8 lies beyond the end of the byte array,             *)
(* getImageDimensions throws instead of returning a width and a height.    *)
(***************************************************************************)
\* the offset at which the loop of getJpegDimensions, entered with the given
\* offset, finds a frame marker, or -1 when it finds none
RECURSIVE FrameOffset(_, _)
FrameOffset(uint8Array, offset) ==
    IF ~ (offset < Len(uint8Array)) \/ ~ Is(uint8Array, offset, 255) THEN -1
    ELSE IF Is(uint8Array, offset + 1, 192) \/ Is(uint8Array, offset + 1, 194) THEN offset
    ELSE IF ~ Has(uint8Array, offset + 3) THEN -1
    ELSE FrameOffset(uint8Array,
                     offset + 2 + uint8Array[offset + 3] * 2^8 + uint8Array[offset + 4])

\* a JPEG whose frame marker is found and whose dimension bytes are cut off
TruncatedFrame(uint8Array) ==
    /\ JpegSignature(uint8Array)
    /\ FrameOffset(uint8Array, 2) >= 0
    /\ ~ Has(uint8Array, FrameOffset(uint8Array, 2) + 8)

C21_TruncatedHeaderThrows ==
    (image.dimensions # <<>> /\ TruncatedFrame(image.encodedImage))
        => ~ image.dimensions[1].ok

(***************************************************************************)
(* C22.  For every stream object written by build() (page contents and     *)
(* font file), the /Length declared in its dictionary equals the number of *)
(* bytes placed between the "stream" line and the "endstream" line, for    *)
(* every payload, one that begins or ends with white space included.       *)
(***************************************************************************)
StreamDict == "<</Filter/FlateDecode/Length "

\* the number a stream dictionary declares as its /Length
DeclaredLength(dict) == ParseDec(SubSeq(dict, Len(StreamDict) + 1, Len(dict) - 2))

\* the number of bytes of s between "stream\n" of the object h and the line
\* break that precedes its "endstream"
PlacedLength(s, h) == IndexFrom(s, "\nendstream\n", StreamStart(h)) - StreamStart(h)

StreamLengths(s) ==
    \A h \in Headers(s) :
        StartsWithAt(h.dict, 0, StreamDict) => DeclaredLength(h.dict) = PlacedLength(s, h)

C22_DeclaredLengthIsPlaced == [][FirstBuildReturns => StreamLengths(pdf')]_vars

(***************************************************************************)
(* C23.  The cross-reference table written by build() has exactly N + 1    *)
(* entry lines for the final object count N (the head of the free list for *)
(* 0 and one line for each object 1..N), its subsection header and the     *)
(* /Size of the trailer both state N + 1, and every entry 1..N is written  *)
(* from an offset that was recorded.                                       *)
(***************************************************************************)
\* the step in which a build() returns its document
BuildReturns == pdf' # pdf

XrefTable(s, N) ==
    LET xref == XrefPos(s)
        header == LineAt(s, xref + 5)
        first == xref + 5 + Len(header) + 1
        trailer == IndexFrom(s, "trailer\n", first)
        entry(n) == SubSeq(s, first + 20 * n + 1, first + 20 * n + 20)
    IN  /\ header = "0 " \o Str(N + 1)
        /\ trailer - first = 20 * (N + 1)
        /\ entry(0) = "0000000000 65535 f \n"
        /\ \A n \in 1..N :
              /\ AllDigits(SubSeq(entry(n), 1, 10))
              /\ SubSeq(entry(n), 11, 20) = " 00000 n \n"
        /\ LineAt(s, IndexFrom(s, "/Size ", trailer)) = "/Size " \o Str(N + 1)

C23_XrefTableComplete ==
    [][BuildReturns => /\ XrefTable(pdf', objectCount')
                       /\ \A n \in 1..objectCount' : n \in DOMAIN offsets']_vars

\* a second build() of a document with a font has returned
C23_Witness == builds = 2 /\ buildPc = "idle" /\ Len(fonts) >= 1 /\ pdf = buffer

(***************************************************************************)
(* C24.  With left alignment, the first text-placement operator emitted by *)
(* text() is placed at the base offset (coordinates.x plus the margin for  *)
(* the page viewbox) without the hanging indent, and every later operator  *)
(* is placed at base offset + paddingFromSecondLine; this holds for every  *)
(* text, one whose first character alone meets or exceeds the viewbox      *)
(* width included.                                                         *)
(***************************************************************************)
\* the 0-based indices at which a text-placement operator of buf begins
PlacementStarts(buf) == {p + 1 : p \in Occurrences(buf, "\nBT ")}

\* the first operand of the Td of the operator that begins at p
PlacedX(buf, p) == SubSeq(buf, p + 4, IndexFrom(buf, " ", p + 3))

\* the base offset of a left-aligned line, in half units: coordinates.x, the
\* margin for the page viewbox, and the origin of the viewbox
BaseOffsetH(o) ==
    2 * Opt(o, "coordinates", [x |-> 0, y |-> 0]).x
        + (IF IsViewBoxPage(o) THEN 2 * marginVertical ELSE 0)
        + 2 * ViewBoxOf(o).coordinates.x * scaleFactor

C24_IndentFromSecondOperator ==
    \A k \in 1..Len(calls) :
        (calls[k].res # <<>> /\ "align" \notin DOMAIN calls[k].o) =>
            LET buf == calls[k].res[1].buffer
                starts == PlacementStarts(buf)
                padH == 2 * Opt(calls[k].o, "paddingFromSecondLine", 0)
            IN  \A p \in starts :
                    PlacedX(buf, p)
                        = Fmt2H(BaseOffsetH(calls[k].o)
                                    + (IF p = Min(starts) THEN 0 ELSE padH))

(***************************************************************************)
(* C25.  The text emitters produce syntactically valid string operands:    *)
(* for every input text, each backslash, "(" and ")" of the text appears   *)
(* in the emitted "(...) Tj" operand preceded by an escaping backslash.    *)
(***************************************************************************)
\* the text between "(" and ") Tj ET" of the operator that begins at p
Operand(buf, p) ==
    LET open == IndexFrom(buf, " Td (", p) + Len(" Td (")
    IN  SubSeq(buf, open + 1, IndexFrom(buf, ") Tj ET\n", open))

\* every backslash of s escapes a backslash or a parenthesis, and every
\* parenthesis and backslash of s is escaped so
RECURSIVE Escaped(_)
Escaped(s) ==
    IF Len(s) = 0 THEN TRUE
    ELSE IF SubSeq(s, 1, 1) = "\\"
    THEN /\ Len(s) >= 2
         /\ SubSeq(s, 2, 2) \in {"\\", "(", ")"}
         /\ Escaped(SubSeq(s, 3, Len(s)))
    ELSE /\ SubSeq(s, 1, 1) \notin {"(", ")"}
         /\ Escaped(SubSeq(s, 2, Len(s)))

C25_OperandsEscaped ==
    \A k \in 1..Len(calls) :
        calls[k].res # <<>> =>
            \A p \in PlacementStarts(calls[k].res[1].buffer) :
                Escaped(Operand(calls[k].res[1].buffer, p))

(***************************************************************************)
(* C26.  getJpegDimensions terminates on every byte array: the scan offset *)
(* strictly increases on each iteration, and the function either returns   *)
(* the dimensions of the first segment whose marker is C0 or C2 or throws  *)
(* when a byte other than FF or the end of the data is reached without     *)
(* such a marker.  An offset of NaN, which a segment length read beyond    *)
(* the end gives, fails the test of the loop as the end of the data does.  *)
(***************************************************************************)
\* an iteration leaves a greater offset, or one that ends the loop
ScanAdvances ==
    (image.pc = "loop" /\ image'.pc = "loop")
        => (image'.nan \/ image'.offset > image.offset)

\* what getJpegDimensions returned or threw, against the bytes
ScanOutcome ==
    image.pc = "done" =>
        LET bytes == image.encodedImage
            offset == image.offset
            result == image.jpeg[1]
        IN  /\ \A v \in image.visited : Is(bytes, v, 255) /\ ~ FrameMarker(bytes, v)
            /\ IF result.ok
               THEN /\ ~ image.nan
                    /\ Is(bytes, offset, 255)
                    /\ FrameMarker(bytes, offset)
                    /\ result.height = Bits(bytes, offset + 5) * 2^8 + Bits(bytes, offset + 6)
                    /\ result.width = Bits(bytes, offset + 7) * 2^8 + Bits(bytes, offset + 8)
               ELSE \/ ~ JpegSignature(bytes)
                    \/ image.nan
                    \/ ~ (offset < Len(bytes))
                    \/ ~ Is(bytes, offset, 255)

Fails(k) ==
    /\ calls'[k].stage = "failed"
    /\ (k > Len(calls) \/ calls[k].stage # "failed")

FailureLeavesDocument ==
    \A k \in 1..Len(calls') :
        /\ Fails(k) =>
              /\ pages' = calls'[k].seen[1].pages
              /\ currentPage' = calls'[k].seen[1].currentPage
              /\ globalYTrakerH' = calls'[k].seen[1].globalYTrakerH
        /\ (k <= Len(calls) /\ calls[k].stage = "failed") => calls'[k] = calls[k]

C27_FailureLeavesDocument == [][FailureLeavesDocument]_vars

\* after a text was written on a second page, a call has failed on its colour
\* and another on the fetch of its font
C27_Witness ==
    /\ currentPage >= 1
    /\ \E k \in 1..Len(calls) : calls[k].stage = "written"
    /\ \E k \in 1..Len(calls) :
          calls[k].stage = "failed" /\ calls[k].color = <<>> /\ calls[k].seen[1].currentPage >= 1
    /\ \E k \in 1..Len(calls) :
          calls[k].stage = "failed" /\ calls[k].color # <<>> /\ calls[k].font # <<>>

(***************************************************************************)
(* C28.  After construction with any font list (repeated names included),  *)
(* any two distinct entries of the font registry have distinct resource    *)
(* ids, and the ids are exactly F1..Fk for k registry entries.             *)
(***************************************************************************)
C28_IdsAreF1ToFk ==
    /\ \A i, j \in 1..Len(fonts) : i # j => fonts[i].id # fonts[j].id
    /\ {fonts[i].id : i \in 1..Len(fonts)} = {"F" \o Str(k) : k \in 1..Len(fonts)}

(***************************************************************************)
(* C29.  The wrapping loop of text() neither loses, duplicates nor         *)
(* reorders characters: for every input text and every viewbox width, the  *)
(* concatenation in order of the lines it builds (before trimming) equals  *)
(* the input text.                                                         *)
(***************************************************************************)
RECURSIVE Concatenation(_)
Concatenation(lines) ==
    IF lines = <<>> THEN "" ELSE Head(lines) \o Concatenation(Tail(lines))

C29_LinesPartitionText ==
    \A k \in 1..Len(calls) :
        calls[k].res # <<>> => Concatenation(calls[k].res[1].lines) = calls[k].text

\* a text has been wrapped into several lines, one of them a single space
C29_Witness ==
    \E k \in 1..Len(calls) :
        /\ calls[k].res # <<>>
        /\ Len(calls[k].res[1].lines) >= 3
        /\ \E i \in 1..Len(calls[k].res[1].lines) : calls[k].res[1].lines[i] = " "

=============================================================================
